---- MODULE Spec2Model ----
(***************************************************************************)
(* A model of the backgammon engine of src/src/index.js (the React        *)
(* component BackgammonGame together with the roll button of Dice).       *)
(* Colours are the strings of the source; a point's stack is the sequence *)
(* of its checkers, element 1 being checkers[0] and the last element the  *)
(* one Array.pop() removes.                                               *)
(***************************************************************************)
EXTENDS Integers, Sequences, FiniteSets, TLC

Colors == {"white", "black"}

\* null, as the value of selectedPoint, targetGamePoint and hitCheckerColor
NoPoint == -1
NoColor == "none"
\* the source 'bar' of a move
BarSource == -2

Points == 1..24
TotalCheckers == 15
MatchFormat == 7

whitePath == <<12, 11, 10, 9, 8, 7, 6, 5, 4, 3, 2, 1, 24, 23, 22, 21, 20, 19, 18, 17, 16, 15, 14, 13>>
blackPath == <<13, 14, 15, 16, 17, 18, 19, 20, 21, 22, 23, 24, 1, 2, 3, 4, 5, 6, 7, 8, 9, 10, 11, 12>>

\* the path of a colour, and Array.indexOf on it (0-based, -1 when absent)
PlayerPath(playerColor) == IF playerColor = "white" THEN whitePath ELSE blackPath

PathIndexOf(playerColor, point) ==
  IF \E i \in 1..24 : PlayerPath(playerColor)[i] = point
  THEN (CHOOSE i \in 1..24 : PlayerPath(playerColor)[i] = point) - 1
  ELSE -1

\* homePointsForBearingOff, in the order the source lists them
HomePoints(playerColor) ==
  IF playerColor = "white" THEN <<6, 5, 4, 3, 2, 1>> ELSE <<19, 20, 21, 22, 23, 24>>

HomeIndexOf(playerColor, point) ==
  IF \E i \in 1..6 : HomePoints(playerColor)[i] = point
  THEN (CHOOSE i \in 1..6 : HomePoints(playerColor)[i] = point) - 1
  ELSE -1

(***************************************************************************)
(* Array helpers                                                           *)
(***************************************************************************)
Includes(s, x) == \E i \in 1..Len(s) : s[i] = x

CountOf(s, x) == Cardinality({i \in 1..Len(s) : s[i] = x})

Pop(s) == SubSeq(s, 1, Len(s) - 1)

Top(s) == s[Len(s)]

\* indexOf + splice(index, 1): drops the first occurrence, if any
RemoveFirst(s, x) ==
  IF Includes(s, x)
  THEN LET i == CHOOSE j \in 1..Len(s) : s[j] = x /\ \A k \in 1..(j - 1) : s[k] # x
       IN SubSeq(s, 1, i - 1) \o SubSeq(s, i + 1, Len(s))
  ELSE s

\* the variant of RemoveAll that takes only the first die of used
RemoveAllFirstOnly(s, used) ==
  IF Len(used) = 0 THEN s ELSE RemoveFirst(s, Head(used))

\* diceToConsume.forEach(die => splice(indexOf(die), 1))
RECURSIVE RemoveAll(_, _)
RemoveAll(s, used) ==
  IF Len(used) = 0 THEN s ELSE RemoveAll(RemoveFirst(s, Head(used)), Tail(used))

RECURSIVE SumSeq(_)
SumSeq(s) == IF Len(s) = 0 THEN 0 ELSE Head(s) + SumSeq(Tail(s))

RECURSIVE InsertAsc(_, _)
InsertAsc(s, x) ==
  IF Len(s) = 0 THEN <<x>>
  ELSE IF x < Head(s) THEN <<x>> \o s
  ELSE <<Head(s)>> \o InsertAsc(Tail(s), x)

RECURSIVE SortAsc(_)
SortAsc(s) == IF Len(s) = 0 THEN <<>> ELSE InsertAsc(SortAsc(Pop(s)), Top(s))

Reverse(s) == [i \in 1..Len(s) |-> s[Len(s) + 1 - i]]

SortDesc(s) == Reverse(SortAsc(s))

(***************************************************************************)
(* Board                                                                   *)
(***************************************************************************)
Stack(n, c) == [i \in 1..n |-> c]

initializeBoard ==
  [points |-> [p \in Points |->
                 CASE p = 12 -> Stack(2, "white")
                   [] p = 20 -> Stack(3, "white")
                   [] p = 1  -> Stack(5, "white")
                   [] p = 18 -> Stack(5, "white")
                   [] p = 7  -> Stack(5, "black")
                   [] p = 5  -> Stack(3, "black")
                   [] p = 24 -> Stack(5, "black")
                   [] p = 13 -> Stack(2, "black")
                   [] OTHER  -> <<>>],
   bar  |-> [c \in Colors |-> 0],
   home |-> [c \in Colors |-> 0]]

getOpponentColor(playerColor) == IF playerColor = "white" THEN "black" ELSE "opponent"

\* the variant of isPointBlocked that blocks no point
isPointBlockedNever(point, playerColor, board) == FALSE

\* point is the game point (the source passes the array index point - 1)
isPointBlocked(point, playerColor, board) ==
  LET checkers == board.points[point]
  IN IF Len(checkers) = 0 THEN FALSE
     ELSE checkers[1] = getOpponentColor(playerColor) /\ Len(checkers) >= 2

areAllCheckersInHomeBoard(playerColor, board) ==
  IF board.bar[playerColor] > 0 THEN FALSE
  ELSE IF \E p \in Points : /\ CountOf(board.points[p], playerColor) > 0
                            /\ HomeIndexOf(playerColor, p) = -1
       THEN FALSE
       ELSE LET onHome == SumSeq([i \in 1..6 |->
                            CountOf(board.points[HomePoints(playerColor)[i]], playerColor)])
            IN board.home[playerColor] + onHome = TotalCheckers

\* bar re-entry target of a die
EntryPoint(playerColor, die) == IF playerColor = "white" THEN die ELSE 18 + die

(***************************************************************************)
(* checkIfAnyPossibleMoves: the existence check                            *)
(***************************************************************************)
\* no own checker on a home point listed before fromPoint's (farther from the edge)
NoCheckersFurtherAway(fromPoint, playerColor, board) ==
  LET fromPointHomeIndex == HomeIndexOf(playerColor, fromPoint)
  IN IF fromPointHomeIndex # -1
     THEN \A k \in 1..fromPointHomeIndex :
            ~Includes(board.points[HomePoints(playerColor)[k]], playerColor)
     ELSE FALSE

\* the bearing-off branch of the existence check, for one checker and one die
AnyBearOff(fromPoint, die, player, board) ==
  LET isWhite == player = "white"
      dieCanOvershoot == die >= (IF isWhite THEN fromPoint ELSE 25 - fromPoint)
      isFurthestChecker ==
        \A k \in Points :
          Includes(board.points[k], player) =>
            /\ ~(isWhite /\ k > fromPoint)
            /\ ~(~isWhite /\ k < fromPoint)
  IN /\ areAllCheckersInHomeBoard(player, board)
     /\ NoCheckersFurtherAway(fromPoint, player, board)
     /\ \/ (isWhite /\ fromPoint = die) \/ (~isWhite /\ 25 - fromPoint = die)
        \/ (dieCanOvershoot /\ isFurthestChecker)

\* the variant of AnyStep that forgets the block test of a regular step
AnyStepUnblocked(fromPoint, die, player, board) ==
  LET targetPathIndex == PathIndexOf(player, fromPoint) + die
  IN IF targetPathIndex >= 24
     THEN AnyBearOff(fromPoint, die, player, board)
     ELSE TRUE

\* one checker (the point fromPoint) and one die of the existence check
AnyStep(fromPoint, die, player, board) ==
  LET targetPathIndex == PathIndexOf(player, fromPoint) + die
  IN IF targetPathIndex >= 24
     THEN AnyBearOff(fromPoint, die, player, board)
     ELSE ~isPointBlocked(PlayerPath(player)[targetPathIndex + 1], player, board)

checkIfAnyPossibleMoves(board, player, currentDice) ==
  IF board.bar[player] > 0
  THEN \E i \in 1..Len(currentDice) :
         LET targetGamePoint == EntryPoint(player, currentDice[i])
         IN /\ targetGamePoint - 1 >= 0
            /\ targetGamePoint - 1 < 24
            /\ ~isPointBlocked(targetGamePoint, player, board)
  ELSE \E p \in Points :
         /\ Len(board.points[p]) > 0
         /\ board.points[p][1] = player
         /\ PathIndexOf(player, p) # -1
         /\ \E i \in 1..Len(currentDice) : AnyStep(p, currentDice[i], player, board)

(***************************************************************************)
(* calculatePossibleMoves: the generator                                   *)
(***************************************************************************)
StepResult(target, valid, bearing) ==
  [targetGamePoint |-> target, isValid |-> valid, isBearingOff |-> bearing]

\* the variant of BearOffStepValid that lets any die that passes the end of
\* the path bear the checker off
BearOffStepValidUnguarded(startPoint, die, tempBoard, playerColor) ==
  die + PathIndexOf(playerColor, startPoint) >= 24

\* the bearing-off branch of a single step: the step is valid
BearOffStepValid(startPoint, die, tempBoard, playerColor) ==
  LET distanceToBearOff == IF playerColor = "white" THEN startPoint ELSE 25 - startPoint
  IN /\ areAllCheckersInHomeBoard(playerColor, tempBoard)
     /\ NoCheckersFurtherAway(startPoint, playerColor, tempBoard)
     /\ (die = distanceToBearOff \/ die > distanceToBearOff)

checkSingleStepLogic(startPoint, startPathIndex, die, tempBoard, playerColor, isInitialFromBar) ==
  LET isWhite == playerColor = "white"
  IN IF isInitialFromBar /\ startPoint = BarSource
     THEN LET targetGamePoint == EntryPoint(playerColor, die)
          IN StepResult(targetGamePoint,
                        /\ targetGamePoint - 1 >= 0
                        /\ targetGamePoint - 1 < 24
                        /\ ~isPointBlocked(targetGamePoint, playerColor, tempBoard),
                        FALSE)
     ELSE LET targetPathIndex == startPathIndex + die
          IN IF targetPathIndex >= 24
             THEN LET ok == BearOffStepValid(startPoint, die, tempBoard, playerColor)
                  IN StepResult(IF ok THEN (IF isWhite THEN 0 ELSE 25) ELSE NoPoint, ok, TRUE)
             ELSE LET actualTargetGamePoint == PlayerPath(playerColor)[targetPathIndex + 1]
                      ok == ~isPointBlocked(actualTargetGamePoint, playerColor, tempBoard)
                  IN StepResult(IF ok THEN actualTargetGamePoint ELSE NoPoint, ok, FALSE)

MoveOption(target, used) == [targetPoint |-> target, diceUsed |-> used]

\* a blot of the opponent on point is taken to its bar (the simulated hit)
SimulateHit(point, playerColor, board) ==
  LET opp == getOpponentColor(playerColor)
  IN IF Len(board.points[point]) = 1 /\ board.points[point][1] = opp
     THEN [board EXCEPT !.points[point] = Pop(@), !.bar[opp] = @ + 1]
     ELSE board

RECURSIVE findAllMoves(_, _, _, _, _, _)
RECURSIVE findAllMovesFrom(_, _, _, _, _, _, _)

\* the body of sortedRemainingDice.forEach for the die at position k
findAllMovesFrom(k, playerColor, currentFromPoint, currentFromPathIndex, sortedRemainingDice, currentBoard, pathDice) ==
  LET d1 == sortedRemainingDice[k]
      tempRemainingDice == RemoveFirst(sortedRemainingDice, d1)
      checkerSuccessfullyMovedInTemp ==
        /\ currentFromPoint \in Points
        /\ Len(currentBoard.points[currentFromPoint]) > 0
        /\ currentBoard.points[currentFromPoint][1] = playerColor
  IN IF ~checkerSuccessfullyMovedInTemp THEN <<>>
     ELSE
       LET popped == [currentBoard EXCEPT !.points[currentFromPoint] = Pop(@)]
           step == checkSingleStepLogic(currentFromPoint, currentFromPathIndex, d1, popped, playerColor, FALSE)
           intermediatePoint == step.targetGamePoint
       IN IF ~step.isValid THEN <<>>
          ELSE
            LET hit == IF step.isBearingOff THEN popped
                       ELSE SimulateHit(intermediatePoint, playerColor, popped)
                blockedAfterHit == /\ ~step.isBearingOff
                                   /\ isPointBlocked(intermediatePoint, playerColor, hit)
                tempBoardAfterD1 ==
                  IF step.isBearingOff THEN hit
                  ELSE [hit EXCEPT !.points[intermediatePoint] = Append(@, playerColor)]
                currentPathDice == SortAsc(Append(pathDice, d1))
                intermediatePointPathIndex ==
                  IF step.isBearingOff THEN 24 ELSE PathIndexOf(playerColor, intermediatePoint)
            IN IF blockedAfterHit THEN <<>>
               ELSE <<MoveOption(intermediatePoint, currentPathDice)>> \o
                    (IF intermediatePointPathIndex # -1 /\ Len(tempRemainingDice) > 0
                     THEN findAllMoves(playerColor, intermediatePoint, intermediatePointPathIndex,
                                       tempRemainingDice, tempBoardAfterD1, currentPathDice)
                     ELSE <<>>)

RECURSIVE ConcatBranches(_, _, _, _, _, _, _)
ConcatBranches(k, playerColor, currentFromPoint, currentFromPathIndex, sortedRemainingDice, currentBoard, pathDice) ==
  IF k > Len(sortedRemainingDice) THEN <<>>
  ELSE findAllMovesFrom(k, playerColor, currentFromPoint, currentFromPathIndex,
                        sortedRemainingDice, currentBoard, pathDice)
       \o ConcatBranches(k + 1, playerColor, currentFromPoint, currentFromPathIndex,
                         sortedRemainingDice, currentBoard, pathDice)

\* the moves pushed, in the order the depth-first search pushes them
findAllMoves(playerColor, currentFromPoint, currentFromPathIndex, remainingDice, currentBoard, pathDice) ==
  IF Len(remainingDice) = 0 THEN <<>>
  ELSE ConcatBranches(1, playerColor, currentFromPoint, currentFromPathIndex,
                      SortAsc(remainingDice), currentBoard, pathDice)

\* uniqueMovesMap.set / has / get for one pushed move; a Map keeps the position
\* of a key that is set again
\* the variant of UniqueMovesMapPut that keeps the option found first
UniqueMovesMapPutFirst(map, move) ==
  IF \E j \in 1..Len(map) : map[j].targetPoint = move.targetPoint
  THEN map
  ELSE Append(map, move)

UniqueMovesMapPut(map, move) ==
  IF \E j \in 1..Len(map) : map[j].targetPoint = move.targetPoint
  THEN LET j == CHOOSE i \in 1..Len(map) : map[i].targetPoint = move.targetPoint
           existingMove == map[j]
           better ==
             /\ SortAsc(move.diceUsed) # SortAsc(existingMove.diceUsed)
             /\ \/ Len(move.diceUsed) < Len(existingMove.diceUsed)
                \/ /\ Len(move.diceUsed) = Len(existingMove.diceUsed)
                   /\ SumSeq(move.diceUsed) > SumSeq(existingMove.diceUsed)
       IN IF better THEN [map EXCEPT ![j] = move] ELSE map
  ELSE Append(map, move)

\* moves.forEach from position lo to position hi, starting from map; the range is
\* halved, and the first half finished before the second starts, only to keep
\* the evaluation shallow: the moves are put one by one in their order
RECURSIVE uniqueMovesMapRange(_, _, _, _)
uniqueMovesMapRange(map, moves, lo, hi) ==
  IF lo > hi THEN map
  ELSE IF lo = hi THEN UniqueMovesMapPut(map, moves[lo])
  ELSE LET mid == (lo + hi) \div 2
           firstHalf == uniqueMovesMapRange(map, moves, lo, mid)
       IN IF Len(firstHalf) > 0
          THEN uniqueMovesMapRange(firstHalf, moves, mid + 1, hi)
          ELSE <<>>

\* moves.forEach over the pushed moves, from an empty Map
uniqueMovesMap(moves) == uniqueMovesMapRange(<<>>, moves, 1, Len(moves))

\* the bar branch: one option per die (in the order of the dice) with a valid entry
RECURSIVE BarEntryMoves(_, _, _)
BarEntryMoves(currentDice, playerColor, board) ==
  IF Len(currentDice) = 0 THEN <<>>
  ELSE LET die == Head(currentDice)
           step == checkSingleStepLogic(BarSource, -1, die, board, playerColor, TRUE)
       IN (IF step.isValid THEN <<MoveOption(step.targetGamePoint, <<die>>)>> ELSE <<>>)
          \o BarEntryMoves(Tail(currentDice), playerColor, board)

\* mustReenter is the mustReenterFromBar of the closure
calculatePossibleMoves(fromPoint, currentDice, playerColor, board, mustReenter) ==
  IF mustReenter /\ fromPoint = BarSource
  THEN BarEntryMoves(currentDice, playerColor, board)
  ELSE IF \/ fromPoint = BarSource
          \/ fromPoint \notin Points
          \/ Len(board.points[fromPoint]) = 0
          \/ board.points[fromPoint][1] # playerColor
       THEN <<>>
       ELSE IF PathIndexOf(playerColor, fromPoint) = -1 THEN <<>>
       ELSE uniqueMovesMap(findAllMoves(playerColor, fromPoint,
                                        PathIndexOf(playerColor, fromPoint),
                                        currentDice, board, <<>>))

(***************************************************************************)
(* performMove and undoLastMove on a board, the dice and the history       *)
(***************************************************************************)
\* the variant of HitBlot that forgets to count the blot on its bar
HitBlotUncounted(board, toPoint, hitCheckerColor) ==
  [board EXCEPT !.points[toPoint] = Pop(@)]

\* the blot on toPoint goes to the bar of its colour
HitBlot(board, toPoint, hitCheckerColor) ==
  [board EXCEPT !.points[toPoint] = Pop(@), !.bar[hitCheckerColor] = @ + 1]

MoveRecord(fromPoint, toPoint, color, hit, hitColor, used) ==
  [fromPoint |-> fromPoint, toPoint |-> toPoint, checkerColor |-> color,
   hitOpponentChecker |-> hit, hitCheckerColor |-> hitColor, usedDice |-> used]

\* ok is FALSE where the source returns after console.error, with nothing set
performMove(fromPoint, toPoint, diceToConsume, board, dice, player) ==
  LET sourceOk ==
        IF fromPoint = BarSource THEN board.bar[player] > 0
        ELSE /\ Len(board.points[fromPoint]) # 0
             /\ board.points[fromPoint][1] = player
      checkerToMove ==
        IF fromPoint = BarSource THEN player ELSE Top(board.points[fromPoint])
      removed ==
        IF fromPoint = BarSource THEN [board EXCEPT !.bar[player] = @ - 1]
        ELSE [board EXCEPT !.points[fromPoint] = Pop(@)]
      isBearingOff == toPoint = 0 \/ toPoint = 25
      hitOpponentChecker ==
        /\ ~isBearingOff
        /\ Len(removed.points[toPoint]) = 1
        /\ removed.points[toPoint][1] = getOpponentColor(player)
      hitCheckerColor == IF hitOpponentChecker THEN getOpponentColor(player) ELSE NoColor
      newAvailableDice == RemoveAll(dice, diceToConsume)
      borneOff ==
        IF toPoint = 0 THEN [removed EXCEPT !.home["white"] = @ + 1]
        ELSE [removed EXCEPT !.home["black"] = @ + 1]
      afterHit ==
        IF hitOpponentChecker
        THEN HitBlot(removed, toPoint, hitCheckerColor)
        ELSE removed
      landed == [afterHit EXCEPT !.points[toPoint] = Append(@, checkerToMove)]
      newBoardState == IF isBearingOff THEN borneOff ELSE landed
      won == /\ isBearingOff
             /\ (newBoardState.home["white"] = 15 \/ newBoardState.home["black"] = 15)
      hasMoreMoves == checkIfAnyPossibleMoves(newBoardState, player, newAvailableDice)
  IN IF ~sourceOk
     THEN [ok |-> FALSE, board |-> board, dice |-> dice, won |-> FALSE, schedule |-> FALSE,
           record |-> MoveRecord(fromPoint, toPoint, player, FALSE, NoColor, diceToConsume)]
     ELSE [ok |-> TRUE, board |-> newBoardState, dice |-> newAvailableDice,
           won |-> won,
           schedule |-> ~won /\ (Len(newAvailableDice) = 0 \/ ~hasMoreMoves),
           record |-> IF isBearingOff
                      THEN MoveRecord(fromPoint, toPoint, player, FALSE, NoColor, diceToConsume)
                      ELSE MoveRecord(fromPoint, toPoint, player, hitOpponentChecker,
                                      hitCheckerColor, diceToConsume)]

\* reversed is FALSE where the source returns after "Error during undo": the
\* history has lost its last record by then, the board and the dice are as before
undoLastMove(history, board, dice) ==
  LET lastMove == Top(history)
      newMoveHistory == Pop(history)
      isBearingOffMove == lastMove.toPoint = 0 \/ lastMove.toPoint = 25
      toOk == /\ Len(board.points[lastMove.toPoint]) # 0
              /\ Top(board.points[lastMove.toPoint]) = lastMove.checkerColor
      back ==
        IF isBearingOffMove
        THEN [board EXCEPT
                !.home = IF lastMove.toPoint = 0 THEN [@ EXCEPT !["white"] = @ - 1]
                         ELSE [@ EXCEPT !["black"] = @ - 1],
                !.points[lastMove.fromPoint] = Append(@, lastMove.checkerColor)]
        ELSE LET taken == [board EXCEPT !.points[lastMove.toPoint] = Pop(@)]
             IN IF lastMove.fromPoint = BarSource
                THEN [taken EXCEPT !.bar[lastMove.checkerColor] = @ + 1]
                ELSE [taken EXCEPT !.points[lastMove.fromPoint] = Append(@, lastMove.checkerColor)]
      unhit ==
        IF lastMove.hitOpponentChecker /\ lastMove.hitCheckerColor # NoColor
        THEN LET lowered == [back EXCEPT !.bar[lastMove.hitCheckerColor] = @ - 1]
             IN IF lastMove.toPoint # 0 /\ lastMove.toPoint # 25
                THEN [lowered EXCEPT !.points[lastMove.toPoint] = Append(@, lastMove.hitCheckerColor)]
                ELSE lowered
        ELSE back
  IN IF ~isBearingOffMove /\ ~toOk
     THEN [reversed |-> FALSE, history |-> newMoveHistory, board |-> board, dice |-> dice]
     ELSE [reversed |-> TRUE, history |-> newMoveHistory, board |-> unhit,
           dice |-> SortDesc(dice \o lastMove.usedDice)]

(***************************************************************************)
(* The component's state                                                   *)
(***************************************************************************)
(***************************************************************************)
(* The explored behaviours.  The events of the user and of the dice are     *)
(* drawn from the sets of a scene, chosen once in the initial state:        *)
(*   "hasty"   any point is clicked, the dice show 1 and 2, and the user    *)
(*             clicks, undoes and rolls at any moment, also while a turn    *)
(*             end is pending;                                              *)
(*   "double"  the same with one roll of a double, of twos or of sixes;     *)
(*   "patient" the clicks stay on the points 13..20, where the two colours  *)
(*             meet first, and the user waits for a pending turn end and    *)
(*             for the dice to land; this scene is followed for more rolls; *)
(*   "match"   a match in which each side has won games, with the buttons   *)
(*             that let a side win the game, up to the end of the match and *)
(*             the start of the next; the clicks stay on the points 16..18, *)
(*             where White moves and no checker is hit.                     *)
(***************************************************************************)
MaxRollsHasty == 2
MaxRollsDouble == 1
MaxRollsPatient == 4
MaxRollsMatch == 2
MaxRollsSkip == 2
MaxTimers == 2

VARIABLES
  scene,     \* the scene of the behaviour (not a state of the component)
  isPlaying, playerScore, opponentScore,
  availableDice, currentPlayer, selectedPoint, possibleMovesInfo,
  mustReenterFromBar, moveHistory, boardState,
  showModal, \* the overlay that announces a won game is shown
  confirmModalAction,  \* the action of the open confirmation overlay (at most one)
  currentPage,         \* App: the game component is mounted on the page "game" only
  timers,    \* the pending setTimeout(endTurn, ...) calls, oldest first
  rolling,   \* the roll animation in flight (at most one), with the closure it will call
  rolls      \* the roll clicks accepted so far

vars == <<isPlaying, playerScore, opponentScore, availableDice, currentPlayer,
          selectedPoint, possibleMovesInfo, mustReenterFromBar, moveHistory,
          boardState, showModal, confirmModalAction, currentPage,
          timers, rolling, rolls, scene>>

MaxRolls ==
  CASE scene = "hasty" -> MaxRollsHasty
    [] scene = "double" -> MaxRollsDouble
    [] scene = "patient" -> MaxRollsPatient
    [] scene = "match" -> MaxRollsMatch
    [] scene = "skip" -> MaxRollsSkip
    [] OTHER -> 0

\* the pairs (die1, die2) the dice may show
RollChoices ==
  CASE scene = "double" -> {<<2, 2>>, <<6, 6>>}
    [] scene = "skip" -> {<<3, 5>>, <<3, 4>>}
    [] OTHER -> {<<1, 2>>}

\* the points (0 and 25: the bear-off areas) the user may click
ClickChoices ==
  CASE scene = "patient" -> 13..20
    [] scene = "match" -> 16..18
    [] OTHER -> 0..25

\* the user acts now: always, or in the patient scene when nothing is pending
UserActs ==
  /\ currentPage = "game"
  /\ ~showModal
  /\ confirmModalAction = <<>>
  /\ scene # "patient" \/ (timers = <<>> /\ rolling = <<>>)

\* the state the handlers read and set, as one record
Cur ==
  [playing |-> isPlaying, pScore |-> playerScore, oScore |-> opponentScore,
   dice |-> availableDice, cp |-> currentPlayer, sel |-> selectedPoint,
   pmi |-> possibleMovesInfo, must |-> mustReenterFromBar, hist |-> moveHistory,
   board |-> boardState, modal |-> showModal]

\* Math.ceil(matchFormat / 2)
MatchTarget == (MatchFormat + 1) \div 2

\* what the three effects leave once the renders after a handler have settled
EffectIsPlaying(st) ==
  st.playing /\ st.pScore < MatchTarget /\ st.oScore < MatchTarget

\* the variant of the bar effect that reads the bar of the other colour
EffectMustReenterOtherBar(st) ==
  EffectIsPlaying(st) /\ st.board.bar[IF st.cp = "white" THEN "black" ELSE "white"] > 0

EffectMustReenter(st) == EffectIsPlaying(st) /\ st.board.bar[st.cp] > 0

EffectPossibleMoves(st) ==
  IF EffectMustReenter(st)
  THEN IF Len(st.dice) > 0
       THEN calculatePossibleMoves(IF st.sel # NoPoint THEN st.sel ELSE BarSource,
                                   st.dice, st.cp, st.board, TRUE)
       ELSE IF ~st.must /\ st.sel = NoPoint THEN <<>> ELSE st.pmi
  ELSE IF st.sel = NoPoint THEN <<>>
       ELSE IF Len(st.dice) > 0
            THEN calculatePossibleMoves(st.sel, st.dice, st.cp, st.board, FALSE)
            ELSE st.pmi

\* the variant of DeepCopyKeeps in which findAllMoves works on the board it
\* was given, not on a copy
SharedCopyKeeps(currentBoard, tempBoardAfterD1) == tempBoardAfterD1

\* tempBoardAfterD1 = JSON.parse(JSON.stringify(currentBoard)): what the pops
\* and pushes of findAllMoves on tempBoardAfterD1 leave of currentBoard
DeepCopyKeeps(currentBoard, tempBoardAfterD1) == currentBoard

\* the board the state holds once the effect has computed the options: where
\* findAllMoves runs, its first step pops the source point of its board
BoardAfterEffects(st) ==
  LET fromPoint == st.sel
      searched == /\ Len(st.dice) > 0
                  /\ fromPoint \in Points
                  /\ Len(st.board.points[fromPoint]) > 0
                  /\ st.board.points[fromPoint][1] = st.cp
  IN IF searched
     THEN DeepCopyKeeps(st.board, [st.board EXCEPT !.points[fromPoint] = Pop(@)])
     ELSE st.board

\* the match-end effect calls endMatch, and App leaves the page "game"
MatchEnds(st) == st.playing /\ ~EffectIsPlaying(st)

\* the handler's batched updates st, followed by the effects
Commit(st) ==
  /\ isPlaying' = EffectIsPlaying(st)
  /\ playerScore' = st.pScore
  /\ opponentScore' = st.oScore
  /\ availableDice' = st.dice
  /\ currentPlayer' = st.cp
  /\ selectedPoint' = st.sel
  /\ possibleMovesInfo' = EffectPossibleMoves(st)
  /\ mustReenterFromBar' = EffectMustReenter(st)
  /\ moveHistory' = st.hist
  /\ boardState' = BoardAfterEffects(st)
  /\ showModal' = st.modal
  /\ currentPage' = IF MatchEnds(st) THEN "stats" ELSE currentPage

\* the variant of StillPending in which the component stays mounted
StillPendingMounted(calls, st) == calls

\* the calls still pending when the updates st are committed: they belong to an
\* unmounted component once the match has ended
StillPending(calls, st) ==
  IF MatchEnds(st)
  THEN [t \in 1..Len(calls) |-> [calls[t] EXCEPT !.unmounted = TRUE]]
  ELSE calls

\* what a closure of endTurn has captured: isPlaying and the two home counts
EndTurnClosure(playing, board, delay, afterRoll) ==
  [playing |-> playing, homeWhite |-> board.home["white"],
   homeBlack |-> board.home["black"], delay |-> delay, afterRoll |-> afterRoll,
   unmounted |-> FALSE]

\* the variant of endTurn whose ordinary turn end leaves the history
endTurnKeepsHistory(cap, st) ==
  IF ~cap.playing THEN st
  ELSE IF cap.homeWhite = 15
       THEN [st EXCEPT !.pScore = @ + 1, !.board = initializeBoard, !.dice = <<>>,
                       !.sel = NoPoint, !.pmi = <<>>, !.must = FALSE,
                       !.cp = "white", !.hist = <<>>, !.modal = TRUE]
  ELSE IF cap.homeBlack = 15
       THEN [st EXCEPT !.oScore = @ + 1, !.board = initializeBoard, !.dice = <<>>,
                       !.sel = NoPoint, !.pmi = <<>>, !.must = FALSE,
                       !.cp = "black", !.hist = <<>>, !.modal = TRUE]
  ELSE [st EXCEPT !.cp = IF @ = "white" THEN "black" ELSE "white",
                  !.dice = <<>>, !.sel = NoPoint, !.pmi = <<>>,
                  !.must = FALSE]

\* endTurn as the closure cap runs it on the updates st
endTurn(cap, st) ==
  IF ~cap.playing THEN st
  ELSE IF cap.homeWhite = 15
       THEN [st EXCEPT !.pScore = @ + 1, !.board = initializeBoard, !.dice = <<>>,
                       !.sel = NoPoint, !.pmi = <<>>, !.must = FALSE,
                       !.cp = "white", !.hist = <<>>, !.modal = TRUE]
  ELSE IF cap.homeBlack = 15
       THEN [st EXCEPT !.oScore = @ + 1, !.board = initializeBoard, !.dice = <<>>,
                       !.sel = NoPoint, !.pmi = <<>>, !.must = FALSE,
                       !.cp = "black", !.hist = <<>>, !.modal = TRUE]
  ELSE [st EXCEPT !.cp = IF @ = "white" THEN "black" ELSE "white",
                  !.dice = <<>>, !.sel = NoPoint, !.pmi = <<>>,
                  !.must = FALSE, !.hist = <<>>]

Init ==
  /\ isPlaying = FALSE
  /\ playerScore = 0
  /\ opponentScore = 0
  /\ availableDice = <<>>
  /\ currentPlayer = "white"
  /\ selectedPoint = NoPoint
  /\ possibleMovesInfo = <<>>
  /\ mustReenterFromBar = FALSE
  /\ moveHistory = <<>>
  /\ boardState = initializeBoard
  /\ showModal = FALSE
  /\ confirmModalAction = <<>>
  /\ currentPage = "game"
  /\ timers = <<>>
  /\ rolling = <<>>
  /\ rolls = 0
  /\ scene \in {"hasty", "double", "patient"}

startMatch ==
  /\ currentPage = "game"
  /\ ~isPlaying
  /\ Commit([Cur EXCEPT !.pScore = 0, !.oScore = 0, !.playing = TRUE, !.dice = <<>>,
                        !.cp = "white", !.board = initializeBoard, !.sel = NoPoint,
                        !.pmi = <<>>, !.must = FALSE, !.hist = <<>>])
  /\ UNCHANGED <<confirmModalAction, timers, rolling, rolls, scene>>

\* Dice.handleRollDice: the click starts the animation; the interval callback will
\* call the rollDiceHandler of this render
handleRollDice ==
  /\ UserActs
  /\ isPlaying
  /\ Len(availableDice) = 0
  /\ rolling = <<>>
  /\ rolls < MaxRolls
  /\ rolling' = <<[playing |-> isPlaying, cp |-> currentPlayer, board |-> boardState,
                   unmounted |-> FALSE]>>
  /\ rolls' = rolls + 1
  /\ UNCHANGED <<isPlaying, playerScore, opponentScore, availableDice, currentPlayer,
                 selectedPoint, possibleMovesInfo, mustReenterFromBar, moveHistory,
                 boardState, showModal, confirmModalAction, currentPage, timers, scene>>

\* the variant of RolledDice that does not expand a double
RolledDiceUnexpanded(die1, die2) == <<die1, die2>>

\* newAvailableDice of a roll
RolledDice(die1, die2) ==
  IF die1 = die2 THEN <<die1, die1, die1, die1>> ELSE <<die1, die2>>

\* the end of the animation: rollDiceHandler(die1, die2) of the captured render
rollDiceHandler(die1, die2) ==
  /\ rolling # <<>>
  /\ LET snap == rolling[1]
         newAvailableDice == RolledDice(die1, die2)
         initialPossibleMoves == checkIfAnyPossibleMoves(snap.board, snap.cp, newAvailableDice)
         delay == IF snap.board.bar[snap.cp] > 0 THEN 2000 ELSE 1500
         landed == [t \in 1..Len(timers) |-> [timers[t] EXCEPT !.afterRoll = FALSE]]
     IN /\ snap.playing
        /\ IF snap.unmounted
           THEN /\ timers' = landed
                /\ UNCHANGED <<isPlaying, playerScore, opponentScore, availableDice,
                               currentPlayer, selectedPoint, possibleMovesInfo,
                               mustReenterFromBar, moveHistory, boardState, showModal,
                               currentPage>>
           ELSE /\ initialPossibleMoves \/ Len(timers) < MaxTimers
                /\ Commit([Cur EXCEPT !.dice = newAvailableDice, !.sel = NoPoint,
                                      !.pmi = <<>>, !.hist = <<>>])
                /\ timers' = IF initialPossibleMoves THEN landed
                             ELSE Append(landed,
                                         EndTurnClosure(snap.playing, snap.board, delay, FALSE))
  /\ rolling' = <<>>
  /\ UNCHANGED <<confirmModalAction, rolls, scene>>

\* possibleMovesInfo.find(move => move.targetPoint === pointNumber)
HasTargetMove(pointNumber) ==
  \E i \in 1..Len(possibleMovesInfo) : possibleMovesInfo[i].targetPoint = pointNumber

\* the variant of TargetMoveInfo that takes the first die left, whatever the
\* option found says
TargetMoveInfoFirstDie(pointNumber) == MoveOption(pointNumber, <<availableDice[1]>>)

TargetMoveInfo(pointNumber) ==
  possibleMovesInfo[CHOOSE i \in 1..Len(possibleMovesInfo) :
                      /\ possibleMovesInfo[i].targetPoint = pointNumber
                      /\ \A j \in 1..(i - 1) : possibleMovesInfo[j].targetPoint # pointNumber]

\* the first lines of handlePointClick: otherwise only a message is set
ClickAccepted == UserActs /\ isPlaying /\ Len(availableDice) # 0

\* performMove(fromPoint, toPoint, diceToConsume) called from handlePointClick
PerformMoveCall(fromPoint, toPoint, diceToConsume) ==
  LET res == performMove(fromPoint, toPoint, diceToConsume, boardState, availableDice, currentPlayer)
      moved == [Cur EXCEPT !.board = res.board, !.sel = NoPoint, !.dice = res.dice,
                           !.pmi = <<>>, !.hist = Append(@, res.record)]
      closure == EndTurnClosure(isPlaying, boardState, 1000, rolling # <<>>)
      st == IF res.won THEN endTurn(closure, moved) ELSE moved
  IN IF ~res.ok
     THEN UNCHANGED vars
     ELSE /\ res.schedule => Len(timers) < MaxTimers
          /\ Commit(st)
          /\ timers' = IF res.schedule THEN Append(timers, closure)
                       ELSE StillPending(timers, st)
          /\ rolling' = StillPending(rolling, st)
          /\ UNCHANGED <<confirmModalAction, rolls, scene>>

\* the first checker of the clicked point is the current player's
OwnsPoint(pointNumber) ==
  /\ pointNumber \in Points
  /\ Len(boardState.points[pointNumber]) > 0
  /\ boardState.points[pointNumber][1] = currentPlayer

\* a click on the selected point deselects it
ClickDeselect(pointNumber) ==
  /\ ClickAccepted
  /\ selectedPoint = pointNumber
  /\ Commit([Cur EXCEPT !.sel = NoPoint, !.pmi = <<>>])
  /\ UNCHANGED <<confirmModalAction, timers, rolling, rolls, scene>>

\* the mustReenterFromBar branch, on a highlighted entry point
ClickBarEntry(pointNumber) ==
  /\ ClickAccepted
  /\ selectedPoint # pointNumber
  /\ mustReenterFromBar
  /\ pointNumber # 0 /\ pointNumber # 25
  /\ HasTargetMove(pointNumber)
  /\ PerformMoveCall(BarSource, pointNumber, TargetMoveInfo(pointNumber).diceUsed)

\* a click on a target of the selected checker
ClickTarget(pointNumber) ==
  /\ ClickAccepted
  /\ selectedPoint # pointNumber
  /\ ~mustReenterFromBar
  /\ selectedPoint # NoPoint
  /\ HasTargetMove(pointNumber)
  /\ PerformMoveCall(selectedPoint, pointNumber, TargetMoveInfo(pointNumber).diceUsed)

\* a click on a point whose first checker is the current player's selects it
ClickSelect(pointNumber) ==
  /\ ClickAccepted
  /\ selectedPoint # pointNumber
  /\ ~mustReenterFromBar
  /\ ~(selectedPoint # NoPoint /\ HasTargetMove(pointNumber))
  /\ OwnsPoint(pointNumber)
  /\ Commit([Cur EXCEPT !.sel = pointNumber,
                        !.pmi = calculatePossibleMoves(pointNumber, availableDice, currentPlayer,
                                                       boardState, mustReenterFromBar)])
  /\ UNCHANGED <<confirmModalAction, timers, rolling, rolls, scene>>

\* pointNumber is a click that moves nothing and selects nothing
IsRejectedClick(pointNumber) ==
  /\ selectedPoint # pointNumber
  /\ IF mustReenterFromBar
     THEN ~(pointNumber # 0 /\ pointNumber # 25 /\ HasTargetMove(pointNumber))
     ELSE /\ ~(selectedPoint # NoPoint /\ HasTargetMove(pointNumber))
          /\ ~OwnsPoint(pointNumber)

\* the variant of ClickRejected that also drops the dice
ClickRejectedDropsDice ==
  /\ ClickAccepted
  /\ (\E pointNumber \in ClickChoices : IsRejectedClick(pointNumber)) = TRUE
  /\ Commit([Cur EXCEPT !.sel = NoPoint, !.pmi = <<>>, !.dice = <<>>])
  /\ UNCHANGED <<confirmModalAction, timers, rolling, rolls, scene>>

\* every other click: a message, and outside the bar branch the selection is dropped
\* (the same for each such point)
ClickRejected ==
  /\ ClickAccepted
  /\ (\E pointNumber \in ClickChoices : IsRejectedClick(pointNumber)) = TRUE
  /\ IF mustReenterFromBar
     THEN UNCHANGED vars
     ELSE /\ Commit([Cur EXCEPT !.sel = NoPoint, !.pmi = <<>>])
          /\ UNCHANGED <<confirmModalAction, timers, rolling, rolls, scene>>

\* the Undo button (disabled while the history is empty or no match is played)
UndoClick ==
  /\ UserActs
  /\ Len(moveHistory) # 0
  /\ isPlaying
  /\ LET res == undoLastMove(moveHistory, boardState, availableDice)
         lastMove == Top(moveHistory)
         onBar == res.board.bar[currentPlayer] > 0
         updatedAvailableDice == availableDice \o lastMove.usedDice
     IN IF ~res.reversed
        THEN Commit([Cur EXCEPT !.hist = res.history])
        ELSE Commit([Cur EXCEPT
               !.hist = res.history, !.board = res.board, !.dice = res.dice,
               !.sel = NoPoint, !.must = onBar,
               !.pmi = IF onBar
                       THEN calculatePossibleMoves(BarSource, updatedAvailableDice, currentPlayer,
                                                   res.board, mustReenterFromBar)
                       ELSE <<>>])
  /\ UNCHANGED <<confirmModalAction, timers, rolling, rolls, scene>>

\* the variant of CanFire in which the call a move schedules is never due
CanFireAfterRollOnly(i) ==
  /\ i \in 1..Len(timers)
  /\ timers[i].delay > 1000
  /\ \A j \in 1..(i - 1) : timers[j].delay > timers[i].delay
  /\ ~(timers[i].afterRoll /\ rolling # <<>>)

\* timer i is due before every other pending call: no older timer has a delay as
\* short, and a timer set during the roll animation outlives the animation
CanFire(i) ==
  /\ i \in 1..Len(timers)
  /\ \A j \in 1..(i - 1) : timers[j].delay > timers[i].delay
  /\ ~(timers[i].afterRoll /\ rolling # <<>>)

\* a pending setTimeout(endTurn, ...) runs the endTurn it captured
TimerFires(i) ==
  /\ CanFire(i)
  /\ LET others == SubSeq(timers, 1, i - 1) \o SubSeq(timers, i + 1, Len(timers))
         st == endTurn(timers[i], Cur)
     IN IF timers[i].unmounted
        THEN /\ timers' = others
             /\ UNCHANGED <<isPlaying, playerScore, opponentScore, availableDice,
                            currentPlayer, selectedPoint, possibleMovesInfo,
                            mustReenterFromBar, moveHistory, boardState, showModal,
                            currentPage, rolling>>
        ELSE /\ Commit(st)
             /\ timers' = StillPending(others, st)
             /\ rolling' = StillPending(rolling, st)
  /\ UNCHANGED <<confirmModalAction, rolls, scene>>

\* the OK button of the overlay that announces a won game
closeModal ==
  /\ currentPage = "game"
  /\ showModal
  /\ showModal' = FALSE
  /\ UNCHANGED <<isPlaying, playerScore, opponentScore, availableDice, currentPlayer,
                 selectedPoint, possibleMovesInfo, mustReenterFromBar, moveHistory,
                 boardState, confirmModalAction, currentPage, timers, rolling, rolls,
                 scene>>

\* the buttons "Simulate White Win Game" and "Simulate Black Win Game": the
\* confirmation overlay opens with an action that holds the board and the endTurn
\* of this render
SimulateWinClick(color) ==
  /\ UserActs
  /\ isPlaying
  /\ confirmModalAction' =
       <<[color |-> color, board |-> boardState,
          endTurn |-> EndTurnClosure(isPlaying, boardState, 0, FALSE)]>>
  /\ UNCHANGED <<isPlaying, playerScore, opponentScore, availableDice, currentPlayer,
                 selectedPoint, possibleMovesInfo, mustReenterFromBar, moveHistory,
                 boardState, showModal, currentPage, timers, rolling, rolls, scene>>

\* Yes: the stored action sets the board it holds with fifteen checkers home and
\* calls the endTurn it holds
ConfirmYes ==
  /\ currentPage = "game"
  /\ confirmModalAction # <<>>
  /\ LET action == confirmModalAction[1]
         newBoardState == [action.board EXCEPT !.home[action.color] = 15]
         st == endTurn(action.endTurn, [Cur EXCEPT !.board = newBoardState])
     IN /\ Commit(st)
        /\ timers' = StillPending(timers, st)
        /\ rolling' = StillPending(rolling, st)
  /\ confirmModalAction' = <<>>
  /\ UNCHANGED <<rolls, scene>>

\* No: the overlay closes
ConfirmNo ==
  /\ currentPage = "game"
  /\ confirmModalAction # <<>>
  /\ confirmModalAction' = <<>>
  /\ UNCHANGED <<isPlaying, playerScore, opponentScore, availableDice, currentPlayer,
                 selectedPoint, possibleMovesInfo, mustReenterFromBar, moveHistory,
                 boardState, showModal, currentPage, timers, rolling, rolls, scene>>

\* the Game button of the header on the page the match end leads to: a new
\* game component is mounted
NavigateGame ==
  /\ currentPage = "stats"
  /\ currentPage' = "game"
  /\ isPlaying' = FALSE
  /\ playerScore' = 0
  /\ opponentScore' = 0
  /\ availableDice' = <<>>
  /\ currentPlayer' = "white"
  /\ selectedPoint' = NoPoint
  /\ possibleMovesInfo' = <<>>
  /\ mustReenterFromBar' = FALSE
  /\ moveHistory' = <<>>
  /\ boardState' = initializeBoard
  /\ showModal' = FALSE
  /\ confirmModalAction' = <<>>
  /\ UNCHANGED <<timers, rolling, rolls, scene>>

Next ==
  \/ startMatch
  \/ handleRollDice
  \/ \E dice \in RollChoices : rollDiceHandler(dice[1], dice[2])
  \/ \E pointNumber \in ClickChoices : ClickDeselect(pointNumber)
  \/ \E pointNumber \in ClickChoices : ClickBarEntry(pointNumber)
  \/ \E pointNumber \in ClickChoices : ClickTarget(pointNumber)
  \/ \E pointNumber \in ClickChoices : ClickSelect(pointNumber)
  \/ ClickRejected
  \/ UndoClick
  \/ \E i \in 1..MaxTimers : TimerFires(i)

Spec == Init /\ [][Next]_vars

\* a callback handed to setTimeout or setInterval is run: a pending turn end
\* fires, and a roll animation comes to its end
Fairness ==
  /\ WF_vars(\E i \in 1..MaxTimers : TimerFires(i))
  /\ WF_vars(\E dice \in RollChoices : rollDiceHandler(dice[1], dice[2]))

SpecLive == Spec /\ Fairness

(***************************************************************************)
(* The match: the behaviours from a match in progress in which each side   *)
(* has won all but one or two of the games it needs; White is to roll.     *)
(***************************************************************************)
InitMatch ==
  /\ scene = "match"
  /\ isPlaying = TRUE
  /\ playerScore \in (MatchTarget - 2)..(MatchTarget - 1)
  /\ opponentScore = MatchTarget - 1
  /\ availableDice = <<>>
  /\ currentPlayer = "white"
  /\ selectedPoint = NoPoint
  /\ possibleMovesInfo = <<>>
  /\ mustReenterFromBar = FALSE
  /\ moveHistory = <<>>
  /\ boardState = initializeBoard
  /\ showModal = FALSE
  /\ confirmModalAction = <<>>
  /\ currentPage = "game"
  /\ timers = <<>>
  /\ rolling = <<>>
  /\ rolls = 0

NextMatch ==
  \/ startMatch
  \/ handleRollDice
  \/ \E dice \in RollChoices : rollDiceHandler(dice[1], dice[2])
  \/ \E pointNumber \in ClickChoices : ClickDeselect(pointNumber)
  \/ \E pointNumber \in ClickChoices : ClickTarget(pointNumber)
  \/ \E pointNumber \in ClickChoices : ClickSelect(pointNumber)
  \/ ClickRejected
  \/ UndoClick
  \/ \E i \in 1..MaxTimers : TimerFires(i)
  \/ closeModal
  \/ \E color \in Colors : SimulateWinClick(color)
  \/ ConfirmYes
  \/ ConfirmNo
  \/ NavigateGame

SpecMatch == InitMatch /\ [][NextMatch]_vars

(***************************************************************************)
(* Positions: the generator, the existence check, performMove and         *)
(* undoLastMove applied to boards late in a game.  Each colour has one or  *)
(* two checkers on its spots, at most MaxOnBar on the bar, and the rest of *)
(* its fifteen borne off; a roll has been made.                            *)
(***************************************************************************)
MaxOnBar == 1

\* home points, a point six pips before the end of the path, and a point in the
\* entry zone of the other colour
WhiteSpots == {3, 4, 6, 18, 20}
BlackSpots == {22, 21, 19, 7, 5}

PositionDice == {<<5, 6>>}

\* the board with a colour's checkers on the spots a and b (one each, or two on
\* a = b), some on the bar and the rest borne off
PositionBoard(wa, wb, wbar, ba, bb, bbar) ==
  [points |-> [p \in Points |->
                 Stack((IF p = wa THEN 1 ELSE 0) + (IF p = wb THEN 1 ELSE 0), "white")
                 \o Stack((IF p = ba THEN 1 ELSE 0) + (IF p = bb THEN 1 ELSE 0), "black")],
   bar  |-> [c \in Colors |-> IF c = "white" THEN wbar ELSE bbar],
   home |-> [c \in Colors |-> TotalCheckers - 2 - (IF c = "white" THEN wbar ELSE bbar)]]

InitPositions ==
  /\ scene = "positions"
  /\ isPlaying = TRUE
  /\ playerScore = 0
  /\ opponentScore = 0
  /\ currentPlayer \in Colors
  /\ availableDice \in PositionDice
  /\ \E wa \in WhiteSpots, wb \in WhiteSpots, ba \in BlackSpots, bb \in BlackSpots,
        onBar \in 0..MaxOnBar :
       boardState = PositionBoard(wa, wb, IF currentPlayer = "white" THEN onBar ELSE 0,
                                  ba, bb, IF currentPlayer = "black" THEN onBar ELSE 0)
  /\ selectedPoint = NoPoint
  /\ moveHistory = <<>>
  /\ mustReenterFromBar = (boardState.bar[currentPlayer] > 0)
  /\ possibleMovesInfo =
       IF boardState.bar[currentPlayer] > 0
       THEN calculatePossibleMoves(BarSource, availableDice, currentPlayer, boardState, TRUE)
       ELSE <<>>
  /\ showModal = FALSE
  /\ confirmModalAction = <<>>
  /\ currentPage = "game"
  /\ timers = <<>>
  /\ rolling = <<>>
  /\ rolls = 0

NextPositions ==
  \/ \E pointNumber \in ClickChoices : ClickDeselect(pointNumber)
  \/ \E pointNumber \in ClickChoices : ClickBarEntry(pointNumber)
  \/ \E pointNumber \in ClickChoices : ClickTarget(pointNumber)
  \/ \E pointNumber \in ClickChoices : ClickSelect(pointNumber)
  \/ ClickRejected
  \/ UndoClick
  \/ \E i \in 1..MaxTimers : TimerFires(i)

SpecPositions == InitPositions /\ [][NextPositions]_vars


(***************************************************************************)
(* Rolls that leave no move.  White is to roll with checkers on the bar    *)
(* while Black holds the points 3 and 5 with two checkers each; the dice   *)
(* show 3 and 5, or 3 and 4.  The other checkers of a colour are on one of *)
(* its spots or borne off.                                                 *)
(***************************************************************************)
SkipBoard(wbar, wa, ba) ==
  [points |-> [p \in Points |->
                 CASE p = 3 \/ p = 5 -> Stack(2, "black")
                   [] p = wa -> Stack(1, "white")
                   [] p = ba -> Stack(1, "black")
                   [] OTHER -> <<>>],
   bar  |-> [c \in Colors |-> IF c = "white" THEN wbar ELSE 0],
   home |-> [c \in Colors |-> IF c = "white" THEN TotalCheckers - 1 - wbar
                                                ELSE TotalCheckers - 5]]

InitSkip ==
  /\ scene = "skip"
  /\ isPlaying = TRUE
  /\ playerScore = 0
  /\ opponentScore = 0
  /\ currentPlayer = "white"
  /\ availableDice = <<>>
  /\ \E wbar \in 1..2, wa \in WhiteSpots \ {3}, ba \in BlackSpots \ {5} :
       boardState = SkipBoard(wbar, wa, ba)
  /\ selectedPoint = NoPoint
  /\ possibleMovesInfo = <<>>
  /\ mustReenterFromBar = TRUE
  /\ moveHistory = <<>>
  /\ showModal = FALSE
  /\ confirmModalAction = <<>>
  /\ currentPage = "game"
  /\ timers = <<>>
  /\ rolling = <<>>
  /\ rolls = 0

NextSkip ==
  \/ handleRollDice
  \/ \E dice \in RollChoices : rollDiceHandler(dice[1], dice[2])
  \/ \E pointNumber \in ClickChoices : ClickDeselect(pointNumber)
  \/ \E pointNumber \in ClickChoices : ClickBarEntry(pointNumber)
  \/ \E pointNumber \in ClickChoices : ClickTarget(pointNumber)
  \/ \E pointNumber \in ClickChoices : ClickSelect(pointNumber)
  \/ ClickRejected
  \/ UndoClick
  \/ \E i \in 1..MaxTimers : TimerFires(i)

SpecSkip == InitSkip /\ [][NextSkip]_vars /\ Fairness

(***************************************************************************)
(* Bearing off the last checkers: performMove called with a bear-off area  *)
(* as its target.  The mover has its last two checkers on home points and  *)
(* a roll of 5 and 6 has been made; the turn is followed to its end.       *)
(***************************************************************************)
InitBearOff ==
  /\ scene = "bearoff"
  /\ isPlaying = TRUE
  /\ playerScore = 0
  /\ opponentScore = 0
  /\ currentPlayer \in Colors
  /\ availableDice \in PositionDice
  /\ \E wa \in WhiteSpots, wb \in WhiteSpots, ba \in BlackSpots, bb \in BlackSpots :
       /\ currentPlayer = "white" => (wa \in 1..6 /\ wb \in 1..6)
       /\ currentPlayer = "black" => (ba \in 19..24 /\ bb \in 19..24)
       /\ boardState = PositionBoard(wa, wb, 0, ba, bb, 0)
  /\ selectedPoint = NoPoint
  /\ possibleMovesInfo = <<>>
  /\ mustReenterFromBar = FALSE
  /\ moveHistory = <<>>
  /\ showModal = FALSE
  /\ confirmModalAction = <<>>
  /\ currentPage = "game"
  /\ timers = <<>>
  /\ rolling = <<>>
  /\ rolls = 0

\* performMove(fromPoint, 0 or 25, [die]) for a checker of the current player
\* and a die of the roll
BearOffCall(fromPoint, die) ==
  /\ ClickAccepted
  /\ OwnsPoint(fromPoint)
  /\ Includes(availableDice, die)
  /\ PerformMoveCall(fromPoint, IF currentPlayer = "white" THEN 0 ELSE 25, <<die>>)

NextBearOff ==
  \/ \E fromPoint \in Points, die \in 1..6 : BearOffCall(fromPoint, die)
  \/ \E pointNumber \in ClickChoices : ClickDeselect(pointNumber)
  \/ \E pointNumber \in ClickChoices : ClickTarget(pointNumber)
  \/ \E pointNumber \in ClickChoices : ClickSelect(pointNumber)
  \/ ClickRejected
  \/ UndoClick
  \/ \E i \in 1..MaxTimers : TimerFires(i)

SpecBearOff == InitBearOff /\ [][NextBearOff]_vars

(***************************************************************************)
(* Vocabulary of the properties                                            *)
(***************************************************************************)
\* the other colour, as the rules define it
Opponent(c) == IF c = "white" THEN "black" ELSE "white"

\* checkers of colour c on the 24 board points
OnBoard(c, board) == SumSeq([p \in Points |-> CountOf(board.points[p], c)])

\* the dice of a sequence as a multiset
DiceBag(s) == [d \in 1..6 |-> CountOf(s, d)]

\* a move was applied by this step: the turn's history grew by one record
MoveApplied ==
  /\ Len(moveHistory') = Len(moveHistory) + 1
  /\ Pop(moveHistory') = moveHistory

(***************************************************************************)
(* C1  Conservation of checkers                                            *)
(***************************************************************************)
\* C1: in every state, for each colour, the checkers on the board points plus
\* those on its bar plus those borne off are 15.
C1_Conservation ==
  \A c \in Colors :
    OnBoard(c, boardState) + boardState.bar[c] + boardState.home[c] = TotalCheckers

\* a Black checker was hit, and Black has since re-entered one from the bar
C1_Witness ==
  /\ Len(moveHistory) > 0
  /\ Top(moveHistory).fromPoint = BarSource
  /\ Top(moveHistory).checkerColor = "black"

(***************************************************************************)
(* C2  No point holds both colours                                         *)
(***************************************************************************)
\* C2: in every state, all checkers on any one board point have the same colour.
C2_NoMixedPoint ==
  \A p \in Points :
    \A i, j \in 1..Len(boardState.points[p]) :
      boardState.points[p][i] = boardState.points[p][j]

(***************************************************************************)
(* C3  Blocked points                                                      *)
(***************************************************************************)
\* C3: for each colour c and point p, the point is blocked for c exactly when
\* it holds two or more checkers of Opponent(c); this holds for White and for
\* Black alike, and no destination offered to the mover is such a point.
C3_BlockedIffTwoOpposing ==
  /\ \A c \in Colors, p \in Points :
       isPointBlocked(p, c, boardState)
         <=> CountOf(boardState.points[p], Opponent(c)) >= 2
  /\ \A i \in 1..Len(possibleMovesInfo) :
       possibleMovesInfo[i].targetPoint \in Points =>
         CountOf(boardState.points[possibleMovesInfo[i].targetPoint],
                 Opponent(currentPlayer)) < 2

(***************************************************************************)
(* C4  Hitting a blot                                                      *)
(***************************************************************************)
\* C4: whenever a move of either colour is applied onto a point holding
\* exactly one checker of the other colour, that checker leaves the point,
\* the bar count of its colour grows by one, and the point then holds only
\* the mover's checker.
C4_HitSendsBlotToBar ==
  [][MoveApplied =>
       LET rec == Top(moveHistory')
           opp == Opponent(rec.checkerColor)
       IN (/\ rec.toPoint \in Points
           /\ boardState.points[rec.toPoint] = <<opp>>)
          => /\ boardState'.bar[opp] = boardState.bar[opp] + 1
             /\ boardState'.points[rec.toPoint] = <<rec.checkerColor>>]_vars

(***************************************************************************)
(* C5  The bar comes first                                                 *)
(***************************************************************************)
\* C5: whenever a move is applied while the mover has a checker on the bar,
\* the move is a re-entry from the bar: the bar count of the mover drops by
\* one, no board point loses a checker of the mover, and none is borne off.
C5_BarFirst ==
  [][(MoveApplied /\ boardState.bar[currentPlayer] > 0) =>
       /\ Top(moveHistory').fromPoint = BarSource
       /\ boardState'.bar[currentPlayer] = boardState.bar[currentPlayer] - 1
       /\ \A p \in Points :
            CountOf(boardState'.points[p], currentPlayer)
              >= CountOf(boardState.points[p], currentPlayer)
       /\ boardState'.home = boardState.home]_vars

\* the mover re-entered a checker while another was still waiting on the bar,
\* or re-entered its only one
C5_Witness ==
  /\ Len(moveHistory) > 0
  /\ Top(moveHistory).fromPoint = BarSource
  /\ Top(moveHistory).toPoint \in Points
  /\ Includes(boardState.points[Top(moveHistory).toPoint], currentPlayer)


(***************************************************************************)
(* C6  Re-entry from the bar                                               *)
(***************************************************************************)
\* C6: for a colour with a checker on the bar and a die d, the re-entry
\* target is d for White and 18 + d for Black; the generator offers exactly
\* that target with diceUsed = <<d>> when the target is not blocked for the
\* colour (fewer than two opposing checkers), and offers nothing otherwise.
C6_BarEntryOffered ==
  \A c \in Colors, d \in 1..6 :
    boardState.bar[c] > 0 =>
      LET target == IF c = "white" THEN d ELSE 18 + d
          blocked == CountOf(boardState.points[target], Opponent(c)) >= 2
          offered == calculatePossibleMoves(BarSource, <<d>>, c, boardState, TRUE)
      IN offered = IF blocked THEN <<>> ELSE <<MoveOption(target, <<d>>)>>

(***************************************************************************)
(* C7  Bearing off: which die takes which checker                          *)
(***************************************************************************)
\* the six home points of a colour
HomeSet(c) == IF c = "white" THEN 1..6 ELSE 19..24

\* bearing off is open to c: nothing on the bar, every board checker at home
Eligible(c, board) ==
  /\ board.bar[c] = 0
  /\ \A p \in Points : CountOf(board.points[p], c) > 0 => p \in HomeSet(c)

\* pips from a home point to the edge
Distance(c, p) == IF c = "white" THEN p ELSE 25 - p

\* the bear-off target of a colour
OffBoard(c) == IF c = "white" THEN 0 ELSE 25

\* the generator offers to bear off from src with these dice
BearOffOffered(c, src, dice, board) ==
  LET offered == calculatePossibleMoves(src, dice, c, board, src = BarSource)
  IN \E i \in 1..Len(offered) : offered[i].targetPoint \in {0, 25}

DiceSamples == {<<d>> : d \in 1..6} \cup {<<5, 6>>, <<6, 6>>}

\* a source of colour c
IsSource(c, src, board) ==
  IF src = BarSource THEN board.bar[c] > 0
  ELSE Len(board.points[src]) > 0 /\ board.points[src][1] = c

\* C8: a colour with a checker on the bar or on a point outside its home
\* points is offered no bear-off, from any source with any dice, by the
\* generator or among the pending options, and the last move applied is no
\* bear-off made from such a position.
C8_BearOffOnlyWhenAllHome ==
  /\ \A c \in Colors :
       ~Eligible(c, boardState) =>
         \A src \in Points \cup {BarSource}, dice \in DiceSamples \cup {availableDice} :
           IsSource(c, src, boardState) => ~BearOffOffered(c, src, dice, boardState)
  /\ ~Eligible(currentPlayer, boardState) =>
       \A i \in 1..Len(possibleMovesInfo) : possibleMovesInfo[i].targetPoint \notin {0, 25}
  /\ (Len(moveHistory) > 0 /\ Top(moveHistory).toPoint \in {0, 25}) =>
       Eligible(Top(moveHistory).checkerColor,
                undoLastMove(moveHistory, boardState, availableDice).board)

\* the mover, not allowed to bear off, has selected a checker that a die
\* carries past the end of its path: the bearing-off branch decides, and
\* offers nothing
C8_Witness ==
  /\ selectedPoint \in Points
  /\ ~Eligible(currentPlayer, boardState)
  /\ IsSource(currentPlayer, selectedPoint, boardState)
  /\ \E i \in 1..Len(availableDice) :
       PathIndexOf(currentPlayer, selectedPoint) + availableDice[i] >= 24
  /\ \A i \in 1..Len(possibleMovesInfo) : possibleMovesInfo[i].targetPoint \notin {0, 25}

(***************************************************************************)
(* C9  The existence check agrees with the generator                       *)
(***************************************************************************)
\* the generator finds a move of c from one of its valid sources
SomeSourceHasMoves(c, dice, board) ==
  IF board.bar[c] > 0
  THEN calculatePossibleMoves(BarSource, dice, c, board, TRUE) # <<>>
  ELSE \E p \in Points :
         /\ IsSource(c, p, board)
         /\ calculatePossibleMoves(p, dice, c, board, FALSE) # <<>>

\* C9: for every position, colour and dice, checkIfAnyPossibleMoves is true
\* exactly when calculatePossibleMoves is non-empty for at least one valid
\* source of the colour (the bar while it holds a checker, else a point the
\* colour holds).
C9_ExistenceAgreesWithGenerator ==
  \A c \in Colors, dice \in DiceSamples \cup {availableDice} :
    checkIfAnyPossibleMoves(boardState, c, dice) <=> SomeSourceHasMoves(c, dice, boardState)

\* both outcomes occur on one position: a die that moves a checker of the
\* mover and a die that moves none
C9_Witness ==
  /\ \E d \in 1..6 : /\ checkIfAnyPossibleMoves(boardState, currentPlayer, <<d>>)
                     /\ SomeSourceHasMoves(currentPlayer, <<d>>, boardState)
  /\ \E d \in 1..6 : /\ ~checkIfAnyPossibleMoves(boardState, currentPlayer, <<d>>)
                     /\ ~SomeSourceHasMoves(currentPlayer, <<d>>, boardState)
  /\ Len(moveHistory) > 0

(***************************************************************************)
(* C10  Undo restores the position                                         *)
(***************************************************************************)
\* the source the pending options start from
PendingSource == IF mustReenterFromBar THEN BarSource ELSE selectedPoint

\* C10: applying any pending option and then undoing it restores the points,
\* both bars, both home counts and the multiset of available dice, a hit
\* checker included.
C10_UndoRestores ==
  (isPlaying /\ Len(availableDice) # 0 /\ PendingSource # NoPoint) =>
    \A i \in 1..Len(possibleMovesInfo) :
      LET option == possibleMovesInfo[i]
          moved == performMove(PendingSource, option.targetPoint, option.diceUsed,
                               boardState, availableDice, currentPlayer)
          undone == undoLastMove(Append(moveHistory, moved.record), moved.board, moved.dice)
      IN moved.ok => /\ undone.board = boardState
                     /\ DiceBag(undone.dice) = DiceBag(availableDice)


(***************************************************************************)
(* C12  A roll only while a roll is awaited                                *)
(***************************************************************************)
\* the Roll button took a click in this step
RollRequested == rolls' = rolls + 1

\* the animation ended in this step and rollDiceHandler ran
RollLanded == rolling # <<>> /\ rolling' = <<>>

\* C12: a roll request is accepted only while a match is played, the dice are
\* all used or not yet rolled, and no turn end is still scheduled; and the
\* dice of a roll go to the player who was awaiting it.
C12_RollOnlyWhenAwaited ==
  [][/\ RollRequested =>
          (isPlaying /\ availableDice = <<>> /\ timers = <<>>)
     /\ (RollLanded /\ availableDice' # <<>>) =>
          (availableDice = <<>> /\ currentPlayer' = rolling[1].cp)]_vars


(***************************************************************************)
(* C13  The dice of a turn                                                 *)
(***************************************************************************)
\* at most four values, each a face, and more than two only when all are equal
WellFormedDice(dice) ==
  /\ Len(dice) <= 4
  /\ \A i \in 1..Len(dice) : dice[i] \in 1..6
  /\ Len(dice) > 2 => \A i \in 1..Len(dice) : dice[i] = dice[1]

\* C13: in every state the available dice are at most four faces, more than
\* two only when all are equal, also after moves and undo refunds; and a roll
\* that lands sets them to four copies of a double, or to the two unequal faces.
C13_DiceWellFormed ==
  /\ [](WellFormedDice(availableDice))
  /\ [][(RollLanded /\ rolling[1].playing) =>
          \E d1, d2 \in 1..6 :
            availableDice' = IF d1 = d2 THEN <<d1, d1, d1, d1>> ELSE <<d1, d2>>]_vars

\* three dice of a double are available again after an undo refunded one
C13_Witness ==
  /\ Len(availableDice) = 3
  /\ Len(moveHistory) = 1
  /\ \E i \in 1..Len(timers) : timers[i].delay = 1000


(***************************************************************************)
(* C15  A move consumes its dice                                           *)
(***************************************************************************)
\* C15: whenever a move is applied, the dice it used leave the available dice
\* as a multiset, nothing more and nothing less, one record is appended to
\* the history and the selection is cleared; and every checker of the mover
\* that a remaining die can move is still offered that die alone.
C15_MoveConsumesItsDice ==
  [][MoveApplied =>
       LET rec == Top(moveHistory')
       IN /\ \A d \in 1..6 :
               CountOf(availableDice', d) + CountOf(rec.usedDice, d)
                 = CountOf(availableDice, d)
          /\ moveHistory' = Append(moveHistory, rec)
          /\ selectedPoint' = NoPoint
          /\ boardState'.bar[currentPlayer] = 0 =>
               \A p \in Points, i \in 1..Len(availableDice') :
                 (/\ IsSource(currentPlayer, p, boardState')
                  /\ AnyStep(p, availableDice'[i], currentPlayer, boardState'))
                 => \E j \in 1..Len(calculatePossibleMoves(p, availableDice', currentPlayer,
                                                           boardState', FALSE)) :
                      calculatePossibleMoves(p, availableDice', currentPlayer,
                                             boardState', FALSE)[j].diceUsed
                        = <<availableDice'[i]>>]_vars

\* two dice of a double were used by one move, two are left and a checker of
\* the mover can still use one
C15_Witness ==
  /\ Len(moveHistory) = 1
  /\ Len(moveHistory[1].usedDice) = 2
  /\ Len(availableDice) = 2
  /\ availableDice[1] = availableDice[2]
  /\ checkIfAnyPossibleMoves(boardState, currentPlayer, availableDice)


(***************************************************************************)
(* C20  One option per target                                              *)
(***************************************************************************)
\* kept is what the rule of the claim keeps of the paths: one option per
\* target, taken from the paths, and no path to its target uses fewer dice,
\* or as many dice with a higher sum
KeepsBestPerTarget(paths, kept) ==
  /\ \A i, j \in 1..Len(kept) : kept[i].targetPoint = kept[j].targetPoint => i = j
  /\ \A k \in 1..Len(kept) :
       \E i \in 1..Len(paths) :
         /\ paths[i].targetPoint = kept[k].targetPoint
         /\ SortAsc(paths[i].diceUsed) = SortAsc(kept[k].diceUsed)
  /\ \A i \in 1..Len(paths) :
       \E k \in 1..Len(kept) :
         /\ kept[k].targetPoint = paths[i].targetPoint
         /\ \/ Len(kept[k].diceUsed) < Len(paths[i].diceUsed)
            \/ /\ Len(kept[k].diceUsed) = Len(paths[i].diceUsed)
               /\ SumSeq(kept[k].diceUsed) >= SumSeq(paths[i].diceUsed)

\* the paths findAllMoves pushes for a checker on point p
PathsFrom(c, p, dice, board) ==
  findAllMoves(c, p, PathIndexOf(c, p), dice, board, <<>>)

\* paths to one target that differ in their dice, in every order of finding
PathSamples ==
  LET options == {MoveOption(0, <<6>>), MoveOption(0, <<5>>), MoveOption(0, <<5, 6>>),
                  MoveOption(24, <<6>>)}
  IN {<<a, b, c>> : a \in options, b \in options, c \in options}

\* C20: for a source on the board the generator returns at most one option
\* per target; of several paths to a target it keeps one that uses the fewest
\* dice and, among those, the highest pip sum.
C20_OneOptionPerTarget ==
  /\ \A c \in Colors, p \in Points, dice \in {<<5, 6>>, <<6, 6>>, availableDice} :
       IsSource(c, p, boardState) =>
         KeepsBestPerTarget(PathsFrom(c, p, dice, boardState),
                            calculatePossibleMoves(p, dice, c, boardState, FALSE))
  /\ \A paths \in PathSamples : KeepsBestPerTarget(paths, uniqueMovesMap(paths))

\* the selected checker reaches a target along two orders of the dice, and
\* one option for it is pending
C20_Witness ==
  /\ selectedPoint \in Points
  /\ IsSource(currentPlayer, selectedPoint, boardState)
  /\ Len(availableDice) = 2
  /\ possibleMovesInfo =
       calculatePossibleMoves(selectedPoint, availableDice, currentPlayer, boardState, FALSE)
  /\ Len(PathsFrom(currentPlayer, selectedPoint, availableDice, boardState))
       > Len(possibleMovesInfo)
  /\ \E k \in 1..Len(possibleMovesInfo) : Len(possibleMovesInfo[k].diceUsed) = 2


(***************************************************************************)
(* C11  The undo history is local to the turn                              *)
(***************************************************************************)
\* the dice of a roll land in the mounted component
RollApplied == RollLanded /\ ~rolling[1].unmounted

ScoreRises == playerScore' > playerScore \/ opponentScore' > opponentScore

\* the step pops the last record and refunds its dice; no pending call has run
UndoStep ==
  /\ moveHistory # <<>>
  /\ moveHistory' = Pop(moveHistory)
  /\ availableDice' # <<>>
  /\ UNCHANGED <<timers, rolling>>

\* C11: the history holds only moves of the current player made since the last
\* roll: every record is the current player's, and the history is empty after
\* every roll, every turn end and every game end; an undo leaves the scores
\* and the player and reverses a move of the current turn on the board it was
\* made on, so it never reopens a game that was won.
C11_HistoryIsTurnLocal ==
  /\ [](\A i \in 1..Len(moveHistory) : moveHistory[i].checkerColor = currentPlayer)
  /\ [][(\/ RollApplied
         \/ currentPlayer' # currentPlayer
         \/ ScoreRises
         \/ (boardState # initializeBoard /\ boardState' = initializeBoard))
        => moveHistory' = <<>>]_vars
  /\ [][UndoStep =>
          /\ playerScore' = playerScore /\ opponentScore' = opponentScore
          /\ currentPlayer' = currentPlayer
          /\ Top(moveHistory).checkerColor = currentPlayer
          /\ boardState' = undoLastMove(moveHistory, boardState, availableDice).board]_vars
  /\ [][(playerScore' < playerScore \/ opponentScore' < opponentScore)
        => (~isPlaying \/ currentPage = "stats")]_vars

\* a game has been won after a roll of the match, and nothing is left to undo
C11_Witness ==
  /\ scene = "match"
  /\ currentPage = "game" /\ isPlaying
  /\ showModal
  /\ rolls > 0
  /\ moveHistory = <<>>
  /\ boardState = initializeBoard


(***************************************************************************)
(* C18  The match ends at the target score                                 *)
(***************************************************************************)
Score(c) == IF c = "white" THEN playerScore ELSE opponentScore

\* no score passes the target, and the match is over once a score is there
MatchEndsAtTarget ==
  /\ \A c \in Colors : Score(c) <= MatchTarget
  /\ (\E c \in Colors : Score(c) = MatchTarget) => (~isPlaying /\ currentPage = "stats")

\* the step runs the action of the confirmation overlay, which gives a colour
\* its fifteen checkers home
ConfirmStep == confirmModalAction # <<>> /\ confirmModalAction' = <<>>

\* C18: the match ends as soon as a score reaches ceil(format / 2), so no score
\* passes it, and the scores count the games won: a score rises by one, for a
\* colour that has its fifteen checkers home on the board of that moment (or
\* in the step that puts them there).
C18_ScoresCountGamesWon ==
  /\ [](MatchEndsAtTarget)
  /\ [][\A c \in Colors :
          Score(c)' > Score(c) =>
            /\ Score(c)' = Score(c) + 1
            /\ boardState.home[c] = 15 \/ ConfirmStep]_vars


(***************************************************************************)
(* C19  Nothing moves once the match is over                               *)
(***************************************************************************)
\* C19: from the end of a match until startMatch, no roll, click, undo or
\* pending turn end changes the board, the dice, the player or the scores
\* (leaving the page for a new game component aside).
C19_InertAfterMatch ==
  [][(~isPlaying /\ ~isPlaying' /\ currentPage' = currentPage)
     => UNCHANGED <<boardState, availableDice, currentPlayer, playerScore,
                    opponentScore>>]_vars

\* the match is over and a turn end scheduled before its end is still pending
C19_Witness ==
  /\ currentPage = "stats"
  /\ ~isPlaying
  /\ \E c \in Colors : Score(c) = MatchTarget
  /\ timers # <<>>


(***************************************************************************)
(* C17  The last checker borne off ends the game                           *)
(***************************************************************************)
\* the checkers of c on the points and on the bar
InPlay(c, board) == OnBoard(c, board) + board.bar[c]

\* the step takes the last checker of c off the board
LastCheckerLeaves(c) ==
  /\ currentPlayer = c
  /\ boardState.home[c] = 14
  /\ InPlay(c, boardState) = 1
  /\ InPlay(c, boardState') # 1
  /\ boardState'.home[c] # 13

TurnSpent(c) ==
  /\ isPlaying
  /\ currentPlayer = c
  /\ moveHistory # <<>>
  /\ availableDice = <<>> \/ ~checkIfAnyPossibleMoves(boardState, c, availableDice)

\* the turn has passed to the other colour, which is to roll
TurnPassed(c) ==
  /\ currentPlayer = Opponent(c)
  /\ availableDice = <<>>
  /\ selectedPoint = NoPoint
  /\ moveHistory = <<>>

\* C16: once a move has left the dice empty or without a legal move, the turn
\* ends without further input: the player switches and the dice, the
\* selection and the history are cleared.
C16_SpentTurnEnds ==
  \A c \in Colors : TurnSpent(c) ~> TurnPassed(c)

\* a move has used the last die and the turn end is pending
C16_Witness ==
  /\ isPlaying
  /\ moveHistory # <<>>
  /\ availableDice = <<>>
  /\ timers # <<>>


(***************************************************************************)
(* C14  A roll without a legal move passes the turn                        *)
(***************************************************************************)
\* c has rolled, has not moved, and its dice allow no move
SkipPending(c) ==
  /\ isPlaying
  /\ currentPlayer = c
  /\ availableDice # <<>>
  /\ moveHistory = <<>>
  /\ ~checkIfAnyPossibleMoves(boardState, c, availableDice)

\* the other colour is to roll
AwaitsRoll(c) == currentPlayer = c /\ availableDice = <<>> /\ moveHistory = <<>>

C14_Witness ==
  /\ currentPlayer = "white"
  /\ boardState.bar["white"] = 2
  /\ availableDice = <<3, 5>>
  /\ CountOf(boardState.points[3], "black") >= 2
  /\ CountOf(boardState.points[5], "black") >= 2
  /\ SkipPending("white")
  /\ \E i \in 1..Len(timers) : timers[i].delay = 2000


(***************************************************************************)
(* C21  Chained moves from the starting layout                             *)
(***************************************************************************)
\* White is to move on the starting layout with these dice
AtStart(dice) ==
  /\ isPlaying
  /\ boardState = initializeBoard
  /\ currentPlayer = "white"
  /\ availableDice = dice

\* the options of the generator for a White checker on point 1
FromPointOne == calculatePossibleMoves(1, availableDice, "white", boardState, FALSE)

Offers(options, targetPoint, diceUsed) ==
  \E k \in 1..Len(options) :
    options[k].targetPoint = targetPoint /\ options[k].diceUsed = diceUsed

\* C21 as stated: with four sixes on the starting layout, point 1 is offered
\* point 13 with two dice, besides the stop after one die.
C21_ChainToThirteen ==
  AtStart(<<6, 6, 6, 6>>) =>
    /\ Offers(FromPointOne, 13, <<6, 6>>)
    /\ Offers(FromPointOne, 19, <<6>>)

\* C21 as the code has it: with four sixes, point 1 is offered the stop on
\* point 19 only, since two Black checkers hold point 13 in the starting
\* layout; with four twos it is offered the chain over open points: point 21
\* with two dice, besides the stop on point 23.
C21_ChainOverOpenPoints ==
  /\ AtStart(<<6, 6, 6, 6>>) =>
       /\ FromPointOne = <<MoveOption(19, <<6>>)>>
       /\ CountOf(boardState.points[13], "black") = 2
  /\ AtStart(<<2, 2, 2, 2>>) =>
       /\ Offers(FromPointOne, 23, <<2>>)
       /\ Offers(FromPointOne, 21, <<2, 2>>)

\* four sixes have been rolled on the starting layout and point 1 is selected
C21_Witness ==
  /\ AtStart(<<6, 6, 6, 6>>)
  /\ selectedPoint = 1
  /\ possibleMovesInfo = FromPointOne


(***************************************************************************)
(* C22  Rejected clicks                                                    *)
(***************************************************************************)
\* what a rejected click must leave alone in every case
RejectedClickFrame ==
  UNCHANGED <<boardState, availableDice, moveHistory, currentPlayer, playerScore,
              opponentScore, isPlaying, mustReenterFromBar, timers, rolling>>

Orderings(diceUsed) ==
  {order \in [1..Len(diceUsed) -> {diceUsed[i] : i \in 1..Len(diceUsed)}] :
     DiceBag(order) = DiceBag(diceUsed)}

\* a checker of c may land on point: fewer than two opposing checkers there
OpenTo(c, point, board) == CountOf(board.points[point], Opponent(c)) < 2

\* the board after a checker of c steps from one point to another by the
\* rules: a lone opposing checker on the landing point goes to its bar
RuleStep(c, from, to, board) ==
  LET left == [board EXCEPT !.points[from] = RemoveFirst(@, c)]
      blot == left.points[to] = <<Opponent(c)>>
      hit  == IF blot
              THEN [left EXCEPT !.points[to] = <<>>, !.bar[Opponent(c)] = @ + 1]
              ELSE left
  IN [hit EXCEPT !.points[to] = Append(@, c)]

\* playing the dice in this order from path position idx (0-based) ends on
\* target, every landing open to c on the board as the earlier steps left it,
\* or a last step that bears off with every checker of c at home
RECURSIVE LegalChain(_, _, _, _, _)
LegalChain(c, idx, order, target, board) ==
  IF Len(order) = 0
  THEN IF idx >= 24 THEN target = OffBoard(c) ELSE target = PlayerPath(c)[idx + 1]
  ELSE LET next == idx + Head(order)
       IN IF idx >= 24 THEN FALSE
          ELSE IF next >= 24
          THEN Len(order) = 1 /\ Eligible(c, board) /\ target = OffBoard(c)
          ELSE LET from == PlayerPath(c)[idx + 1]
                   to   == PlayerPath(c)[next + 1]
               IN /\ OpenTo(c, to, board)
                  /\ LegalChain(c, next, Tail(order), target, RuleStep(c, from, to, board))

\* the options of c from src that use two or more dice
ChainedOptions(c, src, dice, board) ==
  LET offered == calculatePossibleMoves(src, dice, c, board, FALSE)
  IN {offered[i] : i \in {j \in 1..Len(offered) : Len(offered[j].diceUsed) >= 2}}

\* C23: every option with two or more dice, of either colour from any of its
\* points, has an order of its dice in which every landing point, the last
\* included, is open to the colour (or is a legal bear-off) on the board as
\* the earlier steps of the chain left it.
C23_ChainHasLegalOrder ==
  \A c \in Colors, src \in Points :
    IsSource(c, src, boardState) =>
      \A option \in ChainedOptions(c, src, availableDice, boardState) :
        \E order \in Orderings(option.diceUsed) :
          LegalChain(c, PathIndexOf(c, src), order, option.targetPoint, boardState)

\* the same for White alone
C23_WhiteChainHasLegalOrder ==
  \A src \in Points :
    IsSource("white", src, boardState) =>
      \A option \in ChainedOptions("white", src, availableDice, boardState) :
        \E order \in Orderings(option.diceUsed) :
          LegalChain("white", PathIndexOf("white", src), order, option.targetPoint, boardState)


(***************************************************************************)
(* C24  The move applied and the chain the generator simulated             *)
(***************************************************************************)
\* the boards findAllMoves holds at the end of the chain that plays the dice
\* in this order from a point (none when a step of the chain is refused)
RECURSIVE SimulatedBoards(_, _, _, _)
SimulatedBoards(c, from, order, board) ==
  IF Len(order) = 0 THEN {board}
  ELSE IF ~IsSource(c, from, board) THEN {}
  ELSE LET popped == [board EXCEPT !.points[from] = Pop(@)]
           step == checkSingleStepLogic(from, PathIndexOf(c, from), Head(order), popped, c, FALSE)
           to == step.targetGamePoint
       IN IF ~step.isValid \/ step.isBearingOff THEN {}
          ELSE LET hit == SimulateHit(to, c, popped)
               IN IF isPointBlocked(to, c, hit) THEN {}
                  ELSE SimulatedBoards(c, to, Tail(order),
                                       [hit EXCEPT !.points[to] = Append(@, c)])

\* the step applies an option that uses two or more dice
ChainApplied == MoveApplied /\ Len(Top(moveHistory').usedDice) >= 2

\* C24: a move that uses two or more dice leaves the board as the generator
\* left its copy at the end of the chain, for some order of the dice; an
\* opposing blot the chain hit on the way is on the bar afterwards.
C24_AppliedChainMatchesSimulation ==
  [][ChainApplied =>
       LET record == Top(moveHistory')
       IN \E order \in Orderings(record.usedDice) :
            boardState' \in SimulatedBoards(record.checkerColor, record.fromPoint,
                                            order, boardState)]_vars


(***************************************************************************)
(* C25  Computing the options and the existence check is read-only         *)
(***************************************************************************)
\* a click selects a source, and the generator searches from it
SourceSelected == \E pointNumber \in ClickChoices : ClickSelect(pointNumber)

SubBag(a, b) == \A d \in 1..6 : DiceBag(a)[d] <= DiceBag(b)[d]

\* the generator, asked now, returns the move of this record
OfferedNow(record) ==
  Offers(calculatePossibleMoves(record.fromPoint, availableDice, currentPlayer,
                                boardState, mustReenterFromBar),
         record.toPoint, record.usedDice)

\* C26: every move applied is an option the generator returns for the board,
\* the dice, the player and the source of the moment it is applied, and its
\* dice are among the dice left; no stale or never-offered option is applied.
C26_AppliedMoveIsOfferedNow ==
  [][MoveApplied =>
       LET record == Top(moveHistory')
       IN /\ record.checkerColor = currentPlayer
          /\ OfferedNow(record)
          /\ SubBag(record.usedDice, availableDice)]_vars

\* two moves were applied in one turn, the second from the point the first
\* landed on: its option was computed on the board and dice the first left
C26_Witness ==
  /\ Len(moveHistory) = 2
  /\ moveHistory[2].fromPoint = moveHistory[1].toPoint
  /\ moveHistory[2].checkerColor = currentPlayer
  /\ availableDice = <<>>


(***************************************************************************)
(* C27  Nothing happens between scheduling a turn end and running it       *)
(***************************************************************************)
\* a turn end is scheduled and has not run
TurnEndScheduled == \E i \in 1..Len(timers) : ~timers[i].unmounted

\* a click selects a source in this step
SelectionMade == selectedPoint' \in Points /\ selectedPoint' # selectedPoint

\* a scheduled call runs in this step and passes the turn without a game won
TurnEndsWithoutWin ==
  /\ Len(timers') < Len(timers)
  /\ currentPlayer' # currentPlayer
  /\ UNCHANGED <<playerScore, opponentScore>>

\* C27: while a turn end is scheduled, no roll is accepted, none lands, and no
\* selection, move or undo takes effect; so a turn that ends without a game
\* won ends with the dice empty or without a legal move for its player.
C27_NothingBeforeScheduledTurnEnd ==
  [][/\ TurnEndScheduled =>
          ~(RollRequested \/ RollApplied \/ SelectionMade \/ MoveApplied \/ UndoStep)
     /\ TurnEndsWithoutWin =>
          \/ availableDice = <<>>
          \/ ~checkIfAnyPossibleMoves(boardState, currentPlayer, availableDice)]_vars

\* the consequence alone: a turn that ends without a game won ends with the
\* dice empty or without a legal move for its player
C27_TurnEndsOnlyWhenSpent ==
  [][TurnEndsWithoutWin =>
       \/ availableDice = <<>>
       \/ ~checkIfAnyPossibleMoves(boardState, currentPlayer, availableDice)]_vars


(***************************************************************************)
(* C28  One turn end per turn                                              *)
(***************************************************************************)
\* C28: each turn ends once and the colours alternate in rolling: a turn end
\* passes the turn of a player who has rolled in it, never the turn of a
\* player still awaiting the roll, which a second turn end fired for the
\* same turn would do, handing the next roll back to the colour that rolled
\* last.
C28_TurnEndsOncePerTurn ==
  [][TurnEndsWithoutWin => ~AwaitsRoll(currentPlayer)]_vars


(***************************************************************************)
(* C29  A move relocates a checker of the mover                            *)
(***************************************************************************)
\* the checkers of colour c on a place of the board: a point, the bar
\* (BarSource) or the home (0 and 25)
Holds(c, place, board) ==
  IF place \in Points THEN CountOf(board.points[place], c)
  ELSE IF place = BarSource THEN board.bar[c]
  ELSE board.home[c]

\* C29: every move applied takes one checker of the current player from the
\* source and puts it on the target; of the other colour nothing changes
\* place, except a lone checker on the target, which goes to its bar.
C29_MoveRelocatesOwnChecker ==
  [][MoveApplied =>
       LET record == Top(moveHistory')
           c == currentPlayer
           o == Opponent(c)
           blotHit == /\ record.toPoint \in Points
                      /\ boardState.points[record.toPoint] = <<o>>
                      /\ boardState'.bar[o] = boardState.bar[o] + 1
       IN /\ record.checkerColor = c
          /\ Holds(c, record.fromPoint, boardState') = Holds(c, record.fromPoint, boardState) - 1
          /\ Holds(c, record.toPoint, boardState') = Holds(c, record.toPoint, boardState) + 1
          /\ boardState'.home[o] = boardState.home[o]
          /\ blotHit \/ boardState'.bar[o] = boardState.bar[o]
          /\ \A p \in Points :
               Holds(o, p, boardState') =
                 Holds(o, p, boardState) - (IF blotHit /\ p = record.toPoint THEN 1 ELSE 0)]_vars


(***************************************************************************)
(* C30  Undo is all or nothing                                             *)
(***************************************************************************)
\* the Undo button drops the last record in this step (no roll lands, no
\* scheduled call runs, no match starts or ends)
RecordDropped ==
  /\ moveHistory # <<>>
  /\ moveHistory' = Pop(moveHistory)
  /\ UNCHANGED <<timers, rolling, rolls, currentPlayer, isPlaying, playerScore,
                 opponentScore, showModal, confirmModalAction, currentPage>>

\* C30: an undo that drops the last record takes the checker of the record
\* back from the target to the source and refunds the dice of the record;
\* it never drops a record and leaves the board and the dice as they were.
C30_UndoAllOrNothing ==
  [][RecordDropped =>
       LET record == Top(moveHistory)
           c == record.checkerColor
       IN /\ Holds(c, record.toPoint, boardState') = Holds(c, record.toPoint, boardState) - 1
          /\ Holds(c, record.fromPoint, boardState') = Holds(c, record.fromPoint, boardState) + 1
          /\ \A d \in 1..6 :
               DiceBag(availableDice')[d] = DiceBag(availableDice)[d] + DiceBag(record.usedDice)[d]]_vars

====
